---- MODULE Spec2Model ----
(***************************************************************************)
(* Model of inv_report_app.py: the inventory report generator.             *)
(*                                                                         *)
(* Strings the program splits, strips or searches are modelled as          *)
(* sequences of tokens, so that replace / split / join / "in" are computed *)
(* as Python computes them.  A DataFrame is a record                       *)
(*   [columns |-> sequence of column names, rows |-> sequence of rows]     *)
(* where a row is a function from column name to cell text.                *)
(* A call that can raise returns [raised |-> exception name or "",         *)
(* value |-> the returned value].                                          *)
(***************************************************************************)
EXTENDS Integers, Sequences, FiniteSets, TLC

VARIABLES
    call,              \* the function call under test (pure-function specifications)
    ret,               \* its outcome
    pc,                \* position of main() in the run
    qty_file,          \* st.file_uploader("Upload the Quantity File")
    amount_file,       \* st.file_uploader("Upload the Amount File")
    qty_soup,          \* parsed quantity document
    amount_soup,       \* parsed amount document
    qty_df,            \* quantity DataFrame
    amount_df,         \* amount DataFrame
    calls,             \* log of the requests.get calls issued by get_unit_price
    final_report_df,   \* merge_dataframes result
    output_file,       \* content of Final_Report_Structured.xlsx written by this run
    ui,                \* messages and widgets shown by streamlit, in order
    stages,            \* the stages of main() this run has executed, in order
    progress           \* the progress bar value

vars == <<call, ret, pc, qty_file, amount_file, qty_soup, amount_soup, qty_df,
          amount_df, calls, final_report_df, output_file, ui, stages, progress>>

-----------------------------------------------------------------------------
(* Bounds of the model *)

MaxTableRows == 3
MaxMergeRows == 2
MaxDocRows == 3

-----------------------------------------------------------------------------
(* Generic helpers *)

Range(s) == {s[i] : i \in 1..Len(s)}

SeqsUpTo(S, n) == UNION {[1..k -> S] : k \in 0..n}

\* an index of x in seq
IndexOf(seq, x) == CHOOSE i \in 1..Len(seq) : seq[i] = x

\* call outcomes
Returned(v) == [raised |-> "", value |-> v]
NoValue == <<>>
Raised(exc) == [raised |-> exc, value |-> NoValue]

RECURSIVE MaxLen(_)
MaxLen(seqs) ==
    IF seqs = <<>> THEN 0
    ELSE LET m == MaxLen(Tail(seqs)) IN
         IF Len(Head(seqs)) > m THEN Len(Head(seqs)) ELSE m

\* True iff the token sequence sub occurs contiguously in text: Python's "sub in text"
Contains(text, sub) ==
    \E i \in 0..(Len(text) - Len(sub)) :
        \A j \in 1..Len(sub) : text[i + j] = sub[j]

\* text.replace(old, ''), old being a single token: every occurrence is removed
str_replace(text, old) == SelectSeq(text, LAMBDA t : t # old)

\* Index of the first occurrence of token sep in text, 0 if none
RECURSIVE FirstIndex(_, _, _)
FirstIndex(text, sep, i) ==
    IF i > Len(text) THEN 0
    ELSE IF text[i] = sep THEN i
    ELSE FirstIndex(text, sep, i + 1)

\* text.split(sep): the sequence of the pieces between occurrences of token sep
RECURSIVE str_split(_, _)
str_split(text, sep) ==
    LET i == FirstIndex(text, sep, 1) IN
    IF i = 0 THEN <<text>>
    ELSE <<SubSeq(text, 1, i - 1)>> \o str_split(SubSeq(text, i + 1, Len(text)), sep)

\* sep.join(pieces)
RECURSIVE str_join(_, _)
str_join(pieces, sep) ==
    IF pieces = <<>> THEN <<>>
    ELSE IF Len(pieces) = 1 THEN pieces[1]
    ELSE pieces[1] \o <<sep>> \o str_join(Tail(pieces), sep)

\* pieces[:n]
Take(pieces, n) == SubSeq(pieces, 1, IF Len(pieces) < n THEN Len(pieces) ELSE n)

-----------------------------------------------------------------------------
(* The HTML documents *)

ITEM_PREFIX == "ITEM : "
FULL_WIDTH == "15"
NO_COLSPAN == ""

\* the column names soup_to_dataframe gives the 15 cells of a data row
AmountColumns ==
    <<"Warehouse Name", "Opening Balance", "Receipt", "Issue",
      "Transfer Out", "Transfer In", "Adjustment (+)", "Adjustment (-)",
      "Disposal", "Purchase Return", "Sales", "Reserved",
      "Sales Return", "Damaged", "Closing Balance">>

QtyColumns ==
    <<"Warehouse Name", "Opening Stock", "Receipt", "Issue",
      "Transfer Out", "Transfer In", "Adjustment (+)", "Adjustment (-)",
      "Disposal", "Purchase Return", "Sales", "Reserved",
      "Sales Return", "Damaged", "Closing Stock">>

NCOLS == Len(QtyColumns)

\* A row is the sequence of its td cells; a cell is [colspan, text].
Td(colspan, text) == [colspan |-> colspan, text |-> text]

\* <tr><td colspan="15">text</td></tr>
MarkerRow(text) == <<Td(FULL_WIDTH, text)>>

\* the text of numeric cell c of row r of document doc
CellText(doc, r, c) == <<doc \o ToString(r) \o "." \o ToString(c)>>

\* <tr><td>warehouse</td><td>..</td>...</tr> with n cells
DataRowN(doc, r, warehouse, n) ==
    [c \in 1..n |-> Td(NO_COLSPAN, IF c = 1 THEN warehouse ELSE CellText(doc, r, c))]

\* <tr><th>..</th></tr>: a row without td
HeaderRow == <<>>

\* <tr><td colspan="3">..</td></tr>: a decorative row
DecorRow == <<Td("3", <<"Total">>)>>

WS_SHUWAIKH == <<"WS1", " - ", "WS", " ", "Shuwaikh">>
WS_SHUWAIKH_YARD == <<"Yard", " ", "WS1", " - ", "WS", " ", "Shuwaikh">>
WS_AHMADI == <<"WS2", " - ", "WS", " ", "Ahmadi">>

\* Marker texts.  An item code is written with its "_" separators as tokens.
MARKER_PAD == <<ITEM_PREFIX, "6", "_", "2", "_", "1", " - ", "Pad">>
MARKER_KIT == <<ITEM_PREFIX, "6", "_", "2", "_", "2", " - ", "Kit">>
MARKER_KIT_NOTE ==
    <<ITEM_PREFIX, "6", "_", "2", "_", "2", " - ", "Kit", " ", ITEM_PREFIX, "B">>
MARKER_OIL == <<"7", " - ", "Oil">>

\* row.find('td'): the first td of the row, if any
has_td(row) == Len(row) > 0
first_td(row) == row[1]

\* row.get_text(strip=True): the stripped texts of the row's cells, concatenated
RECURSIVE get_text(_)
get_text(row) == IF row = <<>> THEN <<>> ELSE Head(row).text \o get_text(Tail(row))

-----------------------------------------------------------------------------
(* soup_to_dataframe *)

\* A soup is [text, has_table, table]: the document's text content, whether it
\* holds <table id="TableResult">, and that table's rows.
Soup(text, has_table, table) == [text |-> text, has_table |-> has_table, table |-> table]

\* The loop state before the first row: the three lists are empty and
\* current_item is a local variable that has not been assigned yet.
ScanInit_blank_item ==
    [bound |-> TRUE, current_item |-> <<>>, items |-> <<>>, warehouses |-> <<>>,
     data_rows |-> <<>>, raised |-> ""]

ScanInit ==
    [bound |-> FALSE, current_item |-> <<>>, items |-> <<>>, warehouses |-> <<>>,
     data_rows |-> <<>>, raised |-> ""]

\* One iteration of "for row in table.find_all('tr')"
ScanRow(row, st) ==
    IF has_td(row) /\ first_td(row).colspan = FULL_WIDTH
    THEN [st EXCEPT !.bound = TRUE,
                    !.current_item = str_replace(get_text(row), ITEM_PREFIX)]
    ELSE IF has_td(row) /\ first_td(row).colspan = NO_COLSPAN
    THEN IF ~st.bound
         THEN [st EXCEPT !.raised = "UnboundLocalError"]
         ELSE [st EXCEPT !.items = Append(@, st.current_item),
                         !.warehouses = Append(@, row[1].text),
                         !.data_rows = Append(@, [c \in 1..Len(row) |-> row[c].text])]
    ELSE st

RECURSIVE ScanRows(_, _)
ScanRows(rows, st) ==
    IF rows = <<>> \/ st.raised # "" THEN st
    ELSE ScanRows(Tail(rows), ScanRow(Head(rows), st))

ColumnsFor(is_amount_file) == IF is_amount_file THEN AmountColumns ELSE QtyColumns

\* the value pandas gives a cell of a row shorter than the longest row
PyNone == <<"None">>

\* pd.DataFrame(data_rows, columns=columns); df['Item'] = items;
\* df['Warehouse Name'] = warehouses
MakeFrame(st, columns) ==
    [columns |-> Append(columns, "Item"),
     rows |-> [k \in 1..Len(st.data_rows) |->
                 [c \in Range(columns) \cup {"Item"} |->
                     IF c = "Item" THEN st.items[k]
                     ELSE IF c = "Warehouse Name" THEN st.warehouses[k]
                     ELSE IF IndexOf(columns, c) <= Len(st.data_rows[k])
                          THEN st.data_rows[k][IndexOf(columns, c)]
                          ELSE PyNone]]]

soup_to_dataframe(soup, is_amount_file) ==
    IF ~soup.has_table THEN Raised("AttributeError")
    ELSE LET st == ScanRows(soup.table, ScanInit)
             columns == ColumnsFor(is_amount_file)
         IN  IF st.raised # "" THEN Raised(st.raised)
             ELSE IF st.data_rows # <<>> /\ MaxLen(st.data_rows) # Len(columns)
             THEN Raised("ValueError")
             ELSE Returned(MakeFrame(st, columns))

-----------------------------------------------------------------------------
(* Input tables *)

\* A row descriptor [k, text, n]: the kind of the row, the marker text or the
\* warehouse name, and the number of cells of a data row.
RowKind(k, text, n) == [k |-> k, text |-> text, n |-> n]

BuildRow(kind, doc, r) ==
    CASE kind.k = "marker" -> MarkerRow(kind.text)
      [] kind.k = "data"   -> DataRowN(doc, r, kind.text, kind.n)
      [] kind.k = "header" -> HeaderRow
      [] OTHER             -> DecorRow

BuildTable(kinds, doc) == [r \in 1..Len(kinds) |-> BuildRow(kinds[r], doc, r)]

DocTag(is_amount_file) == IF is_amount_file THEN "a" ELSE "q"

-----------------------------------------------------------------------------
(* Pipeline state outside a run *)

NoSoup == Soup(<<>>, FALSE, <<>>)
NoFrame == [columns |-> <<>>, rows |-> <<>>]
NoUpload == [uploaded |-> FALSE, doc |-> NoSoup]
NoFile == [written |-> FALSE, ws |-> <<>>]

PipelineBlank ==
    /\ qty_file = NoUpload
    /\ amount_file = NoUpload
    /\ qty_soup = NoSoup
    /\ amount_soup = NoSoup
    /\ qty_df = NoFrame
    /\ amount_df = NoFrame
    /\ calls = <<>>
    /\ final_report_df = NoFrame
    /\ output_file = NoFile
    /\ ui = <<>>
    /\ stages = <<>>
    /\ progress = 0

pipeline_vars == <<pc, qty_file, amount_file, qty_soup, amount_soup, qty_df,
                   amount_df, calls, final_report_df, output_file, ui, stages, progress>>

-----------------------------------------------------------------------------
(* SpecExtract: soup_to_dataframe applied to every table of at most          *)
(* MaxTableRows rows                                                        *)

ExtractMarkerTexts == {MARKER_PAD, MARKER_KIT_NOTE, MARKER_OIL}

ExtractRowKinds ==
    {RowKind("marker", t, 1) : t \in ExtractMarkerTexts}
    \cup {RowKind("data", WS_SHUWAIKH, NCOLS), RowKind("data", WS_AHMADI, NCOLS),
          RowKind("data", WS_SHUWAIKH, NCOLS - 1)}
    \cup {RowKind("header", <<>>, 0), RowKind("decor", <<>>, 1)}

ExtractCalls ==
    {[fn |-> "soup_to_dataframe",
      soup |-> Soup(<<>>, TRUE, BuildTable(kinds, DocTag(b))),
      is_amount_file |-> b] :
        kinds \in SeqsUpTo(ExtractRowKinds, MaxTableRows), b \in BOOLEAN}
    \cup {[fn |-> "soup_to_dataframe", soup |-> NoSoup, is_amount_file |-> b] :
            b \in BOOLEAN}

InitExtract ==
    /\ call \in ExtractCalls
    /\ ret = <<>>
    /\ pc = "none"
    /\ PipelineBlank

Call_soup_to_dataframe ==
    /\ call.fn = "soup_to_dataframe"
    /\ ret = <<>>
    /\ ret' = <<soup_to_dataframe(call.soup, call.is_amount_file)>>
    /\ UNCHANGED <<call, pipeline_vars>>

NextExtract == Call_soup_to_dataframe

SpecExtract == InitExtract /\ [][NextExtract]_vars

\* Vocabulary of the extraction claims
IsMarker(row) == has_td(row) /\ row[1].colspan = FULL_WIDTH
IsData(row) == has_td(row) /\ row[1].colspan = NO_COLSPAN

DataIndices(table) == SelectSeq([i \in 1..Len(table) |-> i], LAMBDA i : IsData(table[i]))

\* index of the nearest marker row before row i, 0 if none
NearestMarker(table, i) ==
    LET before == {j \in 1..(i - 1) : IsMarker(table[j])}
    IN  IF before = {} THEN 0 ELSE CHOOSE j \in before : \A m \in before : m <= j

\* text with the literal prefix "ITEM : " removed
StripPrefix(text) ==
    IF text # <<>> /\ Head(text) = ITEM_PREFIX THEN Tail(text) ELSE text

\* a marker precedes the first data row, and every data row has the 15 cells
WellFormed(table) ==
    \A i \in 1..Len(table) :
        IsData(table[i]) => NearestMarker(table, i) # 0 /\ Len(table[i]) = NCOLS

DataBeforeMarker(table) ==
    \E i \in 1..Len(table) : IsData(table[i]) /\ NearestMarker(table, i) = 0

ExtractReturned == call.fn = "soup_to_dataframe" /\ ret # <<>>

\* the record of data row table[i]: its cells under the column names
CellsMatch(rec, row, columns) ==
    /\ rec["Warehouse Name"] = row[1].text
    /\ \A c \in 1..Len(columns) : rec[columns[c]] = row[c].text

\* C1: for every well-formed table soup_to_dataframe yields one record per
\* data row, in the order of the data rows, and each record's item is the text
\* of the nearest preceding marker row with the prefix "ITEM : " removed.
C1_OneRecordPerDataRowPrefixStripped ==
    (ExtractReturned /\ call.soup.has_table /\ WellFormed(call.soup.table)) =>
        LET table == call.soup.table
            idx == DataIndices(table)
            out == ret[1]
        IN  /\ out.raised = ""
            /\ Len(out.value.rows) = Len(idx)
            /\ \A k \in 1..Len(idx) :
                  /\ CellsMatch(out.value.rows[k], table[idx[k]],
                                ColumnsFor(call.is_amount_file))
                  /\ out.value.rows[k]["Item"] =
                        StripPrefix(get_text(table[NearestMarker(table, idx[k])]))

\* C2: when a data row comes before any marker row, soup_to_dataframe fails
\* (current_item is unbound): it returns no record set, hence no record with
\* a blank or substituted item.
C2_DataRowBeforeMarkerFails ==
    (ExtractReturned /\ call.soup.has_table /\ DataBeforeMarker(call.soup.table)) =>
        /\ ret[1].raised = "UnboundLocalError"
        /\ ret[1].value = NoValue

C2_Witness ==
    /\ ExtractReturned
    /\ call.soup.has_table
    /\ DataBeforeMarker(call.soup.table)
    /\ \E i \in 1..Len(call.soup.table) : IsMarker(call.soup.table[i])
    /\ ret[1].raised = "UnboundLocalError"

-----------------------------------------------------------------------------
(* merge_dataframes *)

MergeOn_item_only == <<"Item">>

\* on=['Item', 'Warehouse Name']
MergeOn == <<"Item", "Warehouse Name">>

\* the pairs (left row, right row) of an inner join, in the order of the left rows
RECURSIVE JoinRows(_, _, _)
JoinRows(lrows, rrows, on) ==
    IF lrows = <<>> THEN <<>>
    ELSE LET l == Head(lrows)
             matches == SelectSeq(rrows, LAMBDA r : \A k \in Range(on) : r[k] = l[k])
         IN  [j \in 1..Len(matches) |-> <<l, matches[j]>>]
             \o JoinRows(Tail(lrows), rrows, on)

\* the name pandas gives column c of one side: suffixed when the other side has
\* a column of that name that is not a join key
MergedName(c, other_columns, on, suffix) ==
    IF c \notin Range(on) /\ c \in Range(other_columns) THEN c \o suffix ELSE c

\* the merged row of a pair of joined rows: each side's cells under the
\* merged column names
MergeRow(p, lcols, lnames, rcols, rnames) ==
    [n \in Range(lnames) \cup Range(rnames) |->
        IF n \in Range(lnames) THEN p[1][lcols[IndexOf(lnames, n)]]
        ELSE p[2][rcols[IndexOf(rnames, n)]]]

\* pd.merge(left, right, on=on, suffixes=suffixes), an inner join
pd_merge(left, right, on, suffixes) ==
    LET lcols == left.columns
        rcols == SelectSeq(right.columns, LAMBDA c : c \notin Range(on))
        lnames == [i \in 1..Len(lcols) |->
                     MergedName(lcols[i], right.columns, on, suffixes[1])]
        rnames == [i \in 1..Len(rcols) |->
                     MergedName(rcols[i], left.columns, on, suffixes[2])]
        pairs == JoinRows(left.rows, right.rows, on)
    IN  [columns |-> lnames \o rnames,
         rows |-> [k \in 1..Len(pairs) |-> MergeRow(pairs[k], lcols, lnames, rcols, rnames)]]

final_columns_swapped ==
    [c \in {"Opening Stock_qty", "Unit Price", "Opening Balance", "Transfer In_qty",
            "Transfer In_amount", "Sales_qty", "Sales_amount", "Closing Stock_qty",
            "Closing Balance"} |->
        CASE c = "Opening Stock_qty"  -> "Opening Stock"
          [] c = "Unit Price"         -> "Unit Price"
          [] c = "Opening Balance"    -> "Opening Balance Amount"
          [] c = "Transfer In_qty"    -> "Total Purchase"
          [] c = "Transfer In_amount" -> "Purchase Stock"
          [] c = "Sales_qty"          -> "Sales Stock"
          [] c = "Sales_amount"       -> "Total Sales"
          [] c = "Closing Stock_qty"  -> "Closing Stock"
          [] c = "Closing Balance"    -> "Closing Balance Amount"]

final_columns ==
    [c \in {"Opening Stock_qty", "Unit Price", "Opening Balance", "Transfer In_qty",
            "Transfer In_amount", "Sales_qty", "Sales_amount", "Closing Stock_qty",
            "Closing Balance"} |->
        CASE c = "Opening Stock_qty"  -> "Opening Stock"
          [] c = "Unit Price"         -> "Unit Price"
          [] c = "Opening Balance"    -> "Opening Balance Amount"
          [] c = "Transfer In_qty"    -> "Purchase Stock"
          [] c = "Transfer In_amount" -> "Total Purchase"
          [] c = "Sales_qty"          -> "Sales Stock"
          [] c = "Sales_amount"       -> "Total Sales"
          [] c = "Closing Stock_qty"  -> "Closing Stock"
          [] c = "Closing Balance"    -> "Closing Balance Amount"]

\* df.rename(columns=mapping): names absent from the frame are ignored
df_rename(df, mapping) ==
    LET renamed == [i \in 1..Len(df.columns) |->
                      IF df.columns[i] \in DOMAIN mapping THEN mapping[df.columns[i]]
                      ELSE df.columns[i]]
    IN  [columns |-> renamed,
         rows |-> [k \in 1..Len(df.rows) |->
                     [n \in Range(renamed) |-> df.rows[k][df.columns[IndexOf(renamed, n)]]]]]

\* the column list of the final report
ReportColumns ==
    <<"Item", "Opening Stock", "Unit Price", "Opening Balance Amount",
      "Purchase Stock", "Unit Price", "Total Purchase",
      "Sales Stock", "Unit Price", "Total Sales",
      "Closing Stock", "Closing Balance Amount">>

\* df[[...]]: KeyError when a listed column is missing
df_select(df, columns) ==
    IF Range(columns) \subseteq Range(df.columns)
    THEN Returned([columns |-> columns,
                   rows |-> [k \in 1..Len(df.rows) |->
                               [n \in Range(columns) |-> df.rows[k][n]]]])
    ELSE Raised("KeyError")

merge_dataframes(qty, amount) ==
    LET merged_df == pd_merge(qty, amount, MergeOn, <<"_qty", "_amount">>)
    IN  df_select(df_rename(merged_df, final_columns), ReportColumns)

-----------------------------------------------------------------------------
(* get_unit_price and add_unit_price_column *)

\* lambda x: x.split(' - ')[0]
item_code_of(item) == str_split(item, " - ")[1]

\* "_".join(item_code.split("_")[:2])
subminor_code(item_code) == str_join(Take(str_split(item_code, "_"), 2), "_")

\* What requests.get and response.json() can give.  kind is the exception
\* the request raises ("" when it answers 2xx with a JSON body); the body is a
\* JSON object that may lack the keys 'Status' and 'Data'.
Response(kind, has_status, status, has_data, data) ==
    [kind |-> kind, has_status |-> has_status, Status |-> status,
     has_data |-> has_data, Data |-> data]

Entry(code, price) == [ItemCode |-> code, BaseUOMUnitPrice |-> price]

CODE_PAD == <<"6", "_", "2", "_", "1">>
CODE_KIT == <<"6", "_", "2", "_", "2">>

Responses ==
    { Response("ConnectionError", FALSE, "", FALSE, <<>>),
      Response("HTTPError", FALSE, "", FALSE, <<>>),
      Response("JSONDecodeError", FALSE, "", FALSE, <<>>),
      Response("", FALSE, "", FALSE, <<>>),
      Response("", TRUE, "Error", FALSE, <<>>),
      Response("", TRUE, "Success", TRUE, <<Entry(CODE_KIT, 7)>>),
      Response("", TRUE, "Success", TRUE, <<Entry(CODE_KIT, 7), Entry(CODE_PAD, 5)>>) }

\* ConnectionError, HTTPError (raise_for_status) and requests' JSONDecodeError
\* are all subclasses of requests.exceptions.RequestException
IsRequestException(kind) == kind \in {"ConnectionError", "HTTPError", "JSONDecodeError"}

\* The outcome of get_unit_price(item_code) when the request is answered by resp
get_unit_price(item_code, resp) ==
    IF IsRequestException(resp.kind) THEN Returned(0)
    ELSE IF ~resp.has_status THEN Raised("KeyError")
    ELSE IF resp.Status = "Success"
    THEN IF ~resp.has_data THEN Raised("KeyError")
         ELSE LET hits == SelectSeq(resp.Data, LAMBDA e : e.ItemCode = item_code)
              IN  IF hits # <<>> THEN Returned(hits[1].BaseUOMUnitPrice)
                  ELSE Returned(0)
    ELSE Returned(0)

\* add_unit_price_column once every lookup has returned: the copy of df with
\* the columns 'Item Code' and 'Unit Price'
add_unit_price_column(df, prices) ==
    [columns |-> df.columns \o <<"Item Code", "Unit Price">>,
     rows |-> [k \in 1..Len(df.rows) |->
                 [c \in Range(df.columns) \cup {"Item Code", "Unit Price"} |->
                     IF c = "Item Code" THEN item_code_of(df.rows[k]["Item"])
                     ELSE IF c = "Unit Price" THEN prices[k]
                     ELSE df.rows[k][c]]]]

-----------------------------------------------------------------------------
(* SpecMerge: merge_dataframes applied to every pair of frames of at most    *)
(* MaxMergeRows records                                                     *)

ITEM_PAD == str_replace(MARKER_PAD, ITEM_PREFIX)
ITEM_KIT == str_replace(MARKER_KIT, ITEM_PREFIX)

MergeKeySet ==
    {[item |-> i, warehouse |-> w] : i \in {ITEM_PAD, ITEM_KIT},
                                     w \in {WS_SHUWAIKH, WS_AHMADI}}

\* the frame soup_to_dataframe builds from records with the given keys
FrameOf(keys, doc, columns) ==
    MakeFrame([items |-> [r \in 1..Len(keys) |-> keys[r].item],
               warehouses |-> [r \in 1..Len(keys) |-> keys[r].warehouse],
               data_rows |-> [r \in 1..Len(keys) |->
                                [c \in 1..Len(columns) |->
                                    IF c = 1 THEN keys[r].warehouse
                                    ELSE CellText(doc, r, c)]]],
              columns)

MergeCalls ==
    {[fn |-> "merge_dataframes",
      qty |-> add_unit_price_column(FrameOf(kq, "q", QtyColumns),
                                    [r \in 1..Len(kq) |-> 10 + r]),
      amount |-> FrameOf(ka, "a", AmountColumns)] :
        kq \in SeqsUpTo(MergeKeySet, MaxMergeRows),
        ka \in SeqsUpTo(MergeKeySet, MaxMergeRows)}

InitMerge ==
    /\ call \in MergeCalls
    /\ ret = <<>>
    /\ pc = "none"
    /\ PipelineBlank

Call_merge_dataframes ==
    /\ call.fn = "merge_dataframes"
    /\ ret = <<>>
    /\ ret' = <<merge_dataframes(call.qty, call.amount)>>
    /\ UNCHANGED <<call, pipeline_vars>>

NextMerge == Call_merge_dataframes

SpecMerge == InitMerge /\ [][NextMerge]_vars

\* Vocabulary of the merge claims
MergeReturned == call.fn = "merge_dataframes" /\ ret # <<>>

KeyOf(row) == <<row["Item"], row["Warehouse Name"]>>
KeysOf(df) == {KeyOf(df.rows[k]) : k \in 1..Len(df.rows)}
UniqueKeys(df) ==
    \A i, j \in 1..Len(df.rows) : KeyOf(df.rows[i]) = KeyOf(df.rows[j]) => i = j

\* the values of a report row, by position
Positional(df, k) == [p \in 1..Len(df.columns) |-> df.rows[k][df.columns[p]]]

\* the report row the field mapping prescribes for quantity record q and
\* amount record a
ExpectedRow(q, a) ==
    <<q["Item"], q["Opening Stock"], q["Unit Price"], a["Opening Balance"],
      q["Transfer In"], q["Unit Price"], a["Transfer In"],
      q["Sales"], q["Unit Price"], a["Sales"],
      q["Closing Stock"], a["Closing Balance"]>>

\* C3: with unique (item, warehouse) keys on both sides, merge_dataframes
\* outputs exactly one row for each key present in both frames and none for a
\* key present in one frame only: the row count is the number of common keys.
C3_InnerJoinRowCount ==
    (MergeReturned /\ UniqueKeys(call.qty) /\ UniqueKeys(call.amount)) =>
        LET out == ret[1]
            common == KeysOf(call.qty) \cap KeysOf(call.amount)
        IN  /\ out.raised = ""
            /\ Len(out.value.rows) = Cardinality(common)
            /\ \A i \in 1..Len(call.qty.rows) :
                  LET q == call.qty.rows[i]
                      hits == {k \in 1..Len(out.value.rows) :
                                 out.value.rows[k]["Opening Stock"] = q["Opening Stock"]}
                  IN  Cardinality(hits) = IF KeyOf(q) \in common THEN 1 ELSE 0
            /\ \A j \in 1..Len(call.amount.rows) :
                  LET a == call.amount.rows[j]
                      hits == {k \in 1..Len(out.value.rows) :
                                 out.value.rows[k]["Opening Balance Amount"]
                                     = a["Opening Balance"]}
                  IN  Cardinality(hits) = IF KeyOf(a) \in common THEN 1 ELSE 0

C3_Witness ==
    /\ MergeReturned
    /\ UniqueKeys(call.qty) /\ UniqueKeys(call.amount)
    /\ KeysOf(call.qty) \cap KeysOf(call.amount) # {}
    /\ KeysOf(call.qty) \ KeysOf(call.amount) # {}
    /\ KeysOf(call.amount) \ KeysOf(call.qty) # {}
    /\ Len(ret[1].value.rows) = 1

\* C9: every row merge_dataframes outputs has the 12 columns of the report in
\* the fixed order; the stock columns hold the quantity record's opening
\* stock, transfer in, sales and closing stock, the amount columns the matching
\* amount record's opening balance, transfer in, sales and closing balance,
\* and the three unit price positions the quantity record's unit price.
C9_ReportRowMapping ==
    MergeReturned =>
        LET out == ret[1] IN
        /\ out.raised = ""
        /\ out.value.columns =
              <<"Item", "Opening Stock", "Unit Price", "Opening Balance Amount",
                "Purchase Stock", "Unit Price", "Total Purchase",
                "Sales Stock", "Unit Price", "Total Sales",
                "Closing Stock", "Closing Balance Amount">>
        /\ \A k \in 1..Len(out.value.rows) :
              \E i \in 1..Len(call.qty.rows), j \in 1..Len(call.amount.rows) :
                  /\ KeyOf(call.qty.rows[i]) = KeyOf(call.amount.rows[j])
                  /\ Positional(out.value, k)
                        = ExpectedRow(call.qty.rows[i], call.amount.rows[j])

C9_Witness ==
    /\ MergeReturned
    /\ ret[1].raised = ""
    /\ Len(ret[1].value.rows) = 2
    /\ Positional(ret[1].value, 1) # Positional(ret[1].value, 2)

-----------------------------------------------------------------------------
(* apply_excel_formatting *)

NO_FILL == "none"
FILL_OPENING == "ADD8E6"
FILL_PURCHASE == "F4CCCC"
FILL_SALES == "D9EAD3"
FILL_CLOSING == "EAD1DC"

Band(label, min_col, max_col, fill) ==
    [label |-> label, min_col |-> min_col, max_col |-> max_col, fill |-> fill]

Bands_shifted ==
    << Band("OPENING", 1, 3, FILL_OPENING), Band("PURCHASE", 4, 6, FILL_PURCHASE),
       Band("SALES", 7, 9, FILL_SALES), Band("CLOSING STOCK", 10, 11, FILL_CLOSING) >>

\* B1:D1, E1:G1, H1:J1, K1:L1 and the column ranges of the four fill loops
Bands ==
    << Band("OPENING", 2, 4, FILL_OPENING), Band("PURCHASE", 5, 7, FILL_PURCHASE),
       Band("SALES", 8, 10, FILL_SALES), Band("CLOSING STOCK", 11, 12, FILL_CLOSING) >>

Max(a, b) == IF a > b THEN a ELSE b

\* The worksheet once the frame is written from row 2 on (the column names in
\* row 2, record k in row k + 2) and the four header ranges of row 1 are merged
\* and labelled.  A cell is [value, fill, bold, border].
SheetWithData(df, bands) ==
    LET max_row == Len(df.rows) + 2
        max_column == Max(Len(df.columns), bands[Len(bands)].max_col)
        value(r, c) ==
            IF r = 1
            THEN IF \E b \in Range(bands) : b.min_col = c
                 THEN <<(CHOOSE b \in Range(bands) : b.min_col = c).label>>
                 ELSE PyNone
            ELSE IF c > Len(df.columns) THEN PyNone
            ELSE IF r = 2 THEN <<df.columns[c]>>
            ELSE df.rows[r - 2][df.columns[c]]
    IN  [max_row |-> max_row,
         max_column |-> max_column,
         merged |-> {<<1, b.min_col, b.max_col>> : b \in Range(bands)},
         cells |-> [rc \in (1..max_row) \X (1..max_column) |->
                      [value |-> value(rc[1], rc[2]), fill |-> NO_FILL,
                       bold |-> FALSE, border |-> "none"]]]

\* ws[anchor].fill = fill; .font = bold_font, for the top-left cell of a band
StyleHeader(ws, band) ==
    [ws EXCEPT !.cells[<<1, band.min_col>>] = [@ EXCEPT !.fill = band.fill, !.bold = TRUE]]

\* for row in ws.iter_rows(min_row=2, max_row=ws.max_row, min_col=.., max_col=..)
FillBand(ws, band) ==
    LET cells == ws.cells IN
    [ws EXCEPT !.cells =
        [rc \in DOMAIN cells |->
            IF rc[1] >= 2 /\ rc[2] >= band.min_col /\ rc[2] <= band.max_col
            THEN [cells[rc] EXCEPT !.fill = band.fill]
            ELSE cells[rc]]]

\* the header styling and the fill loop, for each band in turn
RECURSIVE StyleHeaders(_, _)
StyleHeaders(ws, bands) ==
    IF bands = <<>> THEN ws ELSE StyleHeaders(StyleHeader(ws, Head(bands)), Tail(bands))

RECURSIVE FillBands(_, _)
FillBands(ws, bands) ==
    IF bands = <<>> THEN ws ELSE FillBands(FillBand(ws, Head(bands)), Tail(bands))

\* cell.border = thin_border for every cell of the used range
ApplyBorders(ws) ==
    LET cells == ws.cells IN
    [ws EXCEPT !.cells = [rc \in DOMAIN cells |-> [cells[rc] EXCEPT !.border = "thin"]]]

\* the workbook apply_excel_formatting saves (column widths are not part of the
\* sheet model)
apply_excel_formatting(df) ==
    LET ws0 == SheetWithData(df, Bands)
        ws1 == StyleHeaders(ws0, Bands)
        ws2 == FillBands(ws1, Bands)
    IN  ApplyBorders(ws2)

-----------------------------------------------------------------------------
(* validate_file_content and the warehouse filter *)

KW_OPENING_STOCK == <<"Opening", " ", "Stock">>
KW_OPENING_BALANCE == <<"Opening", " ", "balance">>

validate_file_content_any(soup, expected_keywords) == TRUE

\* all(keyword in text_content for keyword in expected_keywords)
validate_file_content(soup, expected_keywords) ==
    \A i \in 1..Len(expected_keywords) : Contains(soup.text, expected_keywords[i])

filter_contains_all(df, column, pat) == df

\* df[df[column].str.contains(pat, na=False)]
filter_contains(df, column, pat) ==
    [df EXCEPT !.rows = SelectSeq(@, LAMBDA r : Contains(r[column], pat))]

-----------------------------------------------------------------------------
(* main: one run of "Generate Report" *)

ERR_UPLOAD == "Please upload both the Quantity and Amount files."
ERR_QTY == "The Quantity file does not appear to be correct. Please upload the correct Quantity file."
ERR_AMOUNT == "The Amount file does not appear to be correct. Please upload the correct Amount file."
MSG_SUCCESS == "Report generated and saved as Final_Report_Structured.xlsx"

Widget(kind, text) == [kind |-> kind, text |-> text]

\* the state of main() as a record of the pipeline variables it assigns
MainStart ==
    [pc |-> "done", qty_soup |-> NoSoup, amount_soup |-> NoSoup, qty_df |-> NoFrame,
     amount_df |-> NoFrame, ui |-> <<>>, stages |-> <<>>, progress |-> 0]

\* main() from the click on "Generate Report" up to the first price lookup:
\* upload check, save, parse, validation, extraction and warehouse filter.
\* save_uploaded_file and parse_html_to_soup hand the uploaded content to the
\* parser unchanged (the ".htm" suffix only names the temporary file).
main_until_lookup(qf, af) ==
    IF ~(qf.uploaded /\ af.uploaded)
    THEN [MainStart EXCEPT !.ui = <<Widget("error", ERR_UPLOAD)>>]
    ELSE
    LET parsed == [MainStart EXCEPT !.qty_soup = qf.doc, !.amount_soup = af.doc,
                                    !.stages = <<"save", "parse">>, !.progress = 10]
    IN
    IF ~validate_file_content(qf.doc, <<KW_OPENING_STOCK>>)
    THEN [parsed EXCEPT !.ui = <<Widget("error", ERR_QTY)>>]
    ELSE IF ~validate_file_content(af.doc, <<KW_OPENING_BALANCE>>)
    THEN [parsed EXCEPT !.ui = <<Widget("error", ERR_AMOUNT)>>]
    ELSE
    LET validated == [parsed EXCEPT !.stages = Append(@, "validate"), !.progress = 30]
        q == soup_to_dataframe(qf.doc, FALSE)
    IN
    IF q.raised # ""
    THEN [validated EXCEPT !.pc = "raised", !.ui = <<Widget("exception", q.raised)>>]
    ELSE
    LET a == soup_to_dataframe(af.doc, TRUE) IN
    IF a.raised # ""
    THEN [validated EXCEPT !.pc = "raised", !.ui = <<Widget("exception", a.raised)>>]
    ELSE [validated EXCEPT
            !.pc = "enrich",
            !.qty_df = filter_contains(q.value, "Warehouse Name", WS_SHUWAIKH),
            !.amount_df = filter_contains(a.value, "Warehouse Name", WS_SHUWAIKH),
            !.stages = @ \o <<"extract", "filter">>,
            !.progress = 50]

\* the unit prices returned so far by the lookups of this run
PricesOf(log) == [k \in 1..Len(log) |-> get_unit_price(log[k].item_code, log[k].response).value]

-----------------------------------------------------------------------------
(* Spec: the user uploads two documents and clicks "Generate Report"        *)

DOC_TEXT_QTY == <<"Stock", " ", "Report", " ", "Opening", " ", "Stock">>
DOC_TEXT_AMOUNT == <<"Amount", " ", "Report", " ", "Opening", " ", "balance">>
DOC_TEXT_OTHER == <<"Opening", "Stock", " ", "Opening", " ", "Balance">>

DocRowKinds ==
    { RowKind("marker", MARKER_PAD, 1),
      RowKind("data", WS_SHUWAIKH_YARD, NCOLS), RowKind("data", WS_AHMADI, NCOLS) }

DocTables(doc) == {BuildTable(kinds, doc) : kinds \in SeqsUpTo(DocRowKinds, MaxDocRows)}

SampleTable(doc) ==
    BuildTable(<<RowKind("marker", MARKER_PAD, 1), RowKind("data", WS_SHUWAIKH, NCOLS)>>, doc)

\* The documents a user may upload in a slot: a document with the text of a
\* quantity report and any table, or one with another text, or one without
\* the table element.
Docs(doc) ==
    {Soup(IF doc = "q" THEN DOC_TEXT_QTY ELSE DOC_TEXT_AMOUNT, TRUE, t) : t \in DocTables(doc)}
    \cup {Soup(x, TRUE, SampleTable(doc)) : x \in {DOC_TEXT_QTY, DOC_TEXT_AMOUNT, DOC_TEXT_OTHER}}
    \cup {Soup(IF doc = "q" THEN DOC_TEXT_QTY ELSE DOC_TEXT_AMOUNT, FALSE, <<>>)}

Upload(doc) == [uploaded |-> TRUE, doc |-> doc]

Init ==
    /\ call = [fn |-> "main"]
    /\ ret = <<>>
    /\ pc = "idle"
    /\ PipelineBlank

Upload_qty_file ==
    /\ pc = "idle"
    /\ ~qty_file.uploaded
    /\ \E d \in Docs("q") : qty_file' = Upload(d)
    /\ UNCHANGED <<call, ret, pc, amount_file, qty_soup, amount_soup, qty_df, amount_df,
                   calls, final_report_df, output_file, ui, stages, progress>>

Upload_amount_file ==
    /\ pc = "idle"
    /\ ~amount_file.uploaded
    /\ \E d \in Docs("a") : amount_file' = Upload(d)
    /\ UNCHANGED <<call, ret, pc, qty_file, qty_soup, amount_soup, qty_df, amount_df,
                   calls, final_report_df, output_file, ui, stages, progress>>

Generate_report ==
    /\ pc = "idle"
    /\ LET m == main_until_lookup(qty_file, amount_file) IN
        /\ pc' = m.pc
        /\ qty_soup' = m.qty_soup
        /\ amount_soup' = m.amount_soup
        /\ qty_df' = m.qty_df
        /\ amount_df' = m.amount_df
        /\ ui' = m.ui
        /\ stages' = m.stages
        /\ progress' = m.progress
    /\ UNCHANGED <<call, ret, qty_file, amount_file, calls, final_report_df, output_file>>

\* df['Item Code'].apply(get_unit_price): the call for the next record
Lookup_unit_price ==
    /\ pc = "enrich"
    /\ Len(calls) < Len(qty_df.rows)
    /\ \E resp \in Responses :
        LET rec == qty_df.rows[Len(calls) + 1]
            code == item_code_of(rec["Item"])
            out == get_unit_price(code, resp)
        IN  /\ calls' = Append(calls, [item_code |-> code,
                                       SubminorCode |-> subminor_code(code),
                                       response |-> resp,
                                       warehouse |-> rec["Warehouse Name"]])
            /\ IF out.raised # ""
               THEN /\ pc' = "raised"
                    /\ ui' = Append(ui, Widget("exception", out.raised))
               ELSE UNCHANGED <<pc, ui>>
    /\ UNCHANGED <<call, ret, qty_file, amount_file, qty_soup, amount_soup, qty_df,
                   amount_df, final_report_df, output_file, stages, progress>>

\* main() after the last lookup: the enriched frame, merge_dataframes,
\* apply_excel_formatting, st.success and st.download_button
Finish_report ==
    /\ pc = "enrich"
    /\ Len(calls) = Len(qty_df.rows)
    /\ LET enriched == add_unit_price_column(qty_df, PricesOf(calls))
           m == merge_dataframes(enriched, amount_df)
       IN  /\ qty_df' = enriched
           /\ IF m.raised # ""
              THEN /\ pc' = "raised"
                   /\ ui' = Append(ui, Widget("exception", m.raised))
                   /\ stages' = Append(stages, "enrich")
                   /\ progress' = 70
                   /\ UNCHANGED <<final_report_df, output_file>>
              ELSE /\ pc' = "done"
                   /\ final_report_df' = m.value
                   /\ output_file' = [written |-> TRUE,
                                      ws |-> apply_excel_formatting(m.value)]
                   /\ ui' = ui \o <<Widget("success", MSG_SUCCESS),
                                     Widget("download_button", "Download the report")>>
                   /\ stages' = stages \o <<"enrich", "merge", "write">>
                   /\ progress' = 90
    /\ UNCHANGED <<call, ret, qty_file, amount_file, qty_soup, amount_soup, amount_df, calls>>

Next ==
    \/ Upload_qty_file
    \/ Upload_amount_file
    \/ Generate_report
    \/ Lookup_unit_price
    \/ Finish_report

Spec == Init /\ [][Next]_vars

-----------------------------------------------------------------------------
(* Vocabulary of the pipeline claims *)

BothUploaded == qty_file.uploaded /\ amount_file.uploaded
RunStarted == pc # "idle" /\ BothUploaded
RunEnded == pc \in {"done", "raised"}

QtyLacksPhrase == ~Contains(qty_file.doc.text, <<"Opening", " ", "Stock">>)
AmountLacksPhrase == ~Contains(amount_file.doc.text, <<"Opening", " ", "balance">>)

Shown(kind) == \E i \in 1..Len(ui) : ui[i].kind = kind

LaterStages == {"extract", "filter", "enrich", "merge", "write"}

\* an exception left add_unit_price_column: a lookup was issued and the
\* enrichment stage never completed
EnrichRaised == pc = "raised" /\ calls # <<>> /\ "enrich" \notin Range(stages)

\* the lookup answered by resp failed, or succeeded without the exact code
LookupFailed(resp, code) ==
    \/ resp.kind # ""
    \/ ~resp.has_status
    \/ resp.Status # "Success"
    \/ ~resp.has_data
    \/ \A i \in 1..Len(resp.Data) : resp.Data[i].ItemCode # code

HasWarehouse(row) == Contains(row["Warehouse Name"], <<"WS1", " - ", "WS", " ", "Shuwaikh">>)

\* the records extracted from an uploaded document, before the filter
Extracted(file, is_amount_file) == soup_to_dataframe(file.doc, is_amount_file).value.rows

\* C4: add_unit_price_column never raises because of a lookup failure; every
\* record whose lookup failed (network error, HTTP error status, unparseable or
\* malformed body, Status other than "Success") or whose code is absent from a
\* successful response gets unit price 0, and the other records are enriched.
C4_LookupFailureGivesZero ==
    /\ ~EnrichRaised
    /\ "enrich" \in Range(stages) =>
          /\ Len(calls) = Len(qty_df.rows)
          /\ \A k \in 1..Len(calls) :
                LookupFailed(calls[k].response, calls[k].item_code)
                    => qty_df.rows[k]["Unit Price"] = 0

\* C5: when the quantity document lacks "Opening Stock" or the amount document
\* lacks "Opening balance", the run ends with the validation error (the
\* quantity one first) and runs no later stage: no extraction, filter, lookup,
\* merge or spreadsheet.
C5_ValidationErrorStopsRun ==
    (RunStarted /\ (QtyLacksPhrase \/ AmountLacksPhrase)) =>
        /\ pc = "done"
        /\ ui = <<Widget("error", IF QtyLacksPhrase THEN ERR_QTY ELSE ERR_AMOUNT)>>
        /\ Range(stages) \cap LaterStages = {}
        /\ qty_df = NoFrame
        /\ amount_df = NoFrame
        /\ calls = <<>>
        /\ final_report_df = NoFrame
        /\ ~output_file.written

C5_Witness ==
    /\ RunStarted
    /\ pc = "done"
    /\ QtyLacksPhrase
    /\ AmountLacksPhrase
    /\ ui = <<Widget("error", ERR_QTY)>>

\* C6: the report file is written and offered for download only after
\* validation, extraction, filtering, enrichment and merge have all completed
\* without error; a run in which a stage fails writes no file and offers no
\* download.
C6_ReportOnlyAfterAllStages ==
    /\ output_file.written =>
          /\ pc = "done"
          /\ stages = <<"save", "parse", "validate", "extract", "filter",
                        "enrich", "merge", "write">>
          /\ ~QtyLacksPhrase /\ ~AmountLacksPhrase
          /\ qty_file.doc.has_table /\ ~DataBeforeMarker(qty_file.doc.table)
          /\ amount_file.doc.has_table /\ ~DataBeforeMarker(amount_file.doc.table)
          /\ Len(calls) = Len(qty_df.rows)
          /\ \A k \in 1..Len(calls) :
                get_unit_price(calls[k].item_code, calls[k].response).raised = ""
          /\ ~Shown("error") /\ ~Shown("exception")
    /\ Shown("download_button") => output_file.written
    /\ Shown("success") => output_file.written
    /\ (pc = "raised" \/ Shown("error") \/ Shown("exception")) =>
          /\ ~output_file.written
          /\ ~Shown("download_button")
          /\ final_report_df = NoFrame

C6_Witness ==
    /\ output_file.written
    /\ Shown("download_button")
    /\ Len(calls) = 2
    /\ Len(final_report_df.rows) >= 1

\* C7: the warehouse filter is applied to both frames before enrichment, and
\* a record whose warehouse name does not contain "WS1 - WS Shuwaikh" reaches
\* no later stage: no lookup is issued for it, it is in neither frame that is
\* joined, and no row of the final report carries its cells.
C7_FilteredRecordsAbsentDownstream ==
    /\ calls # <<>> => "filter" \in Range(stages)
    /\ \A k \in 1..Len(calls) : Contains(calls[k].warehouse, <<"WS1", " - ", "WS", " ", "Shuwaikh">>)
    /\ "filter" \in Range(stages) =>
          /\ \A k \in 1..Len(qty_df.rows) : HasWarehouse(qty_df.rows[k])
          /\ \A k \in 1..Len(amount_df.rows) : HasWarehouse(amount_df.rows[k])
          /\ Len(calls) <= Len(SelectSeq(Extracted(qty_file, FALSE), HasWarehouse))
    /\ output_file.written =>
          /\ \A k \in 1..Len(final_report_df.rows) :
                /\ \A x \in Range(Extracted(qty_file, FALSE)) :
                      final_report_df.rows[k]["Opening Stock"] = x["Opening Stock"]
                          => HasWarehouse(x)
                /\ \A x \in Range(Extracted(amount_file, TRUE)) :
                      final_report_df.rows[k]["Opening Balance Amount"] = x["Opening Balance"]
                          => HasWarehouse(x)

C7_Witness ==
    /\ output_file.written
    /\ \E x \in Range(Extracted(qty_file, FALSE)) : ~HasWarehouse(x)
    /\ \E x \in Range(Extracted(amount_file, TRUE)) : ~HasWarehouse(x)
    /\ Len(calls) = 1
    /\ Len(final_report_df.rows) = 1

\* C8: in the written sheet, for any number of report rows, every data-row
\* cell of columns 2-4 has the OPENING colour, of columns 5-7 the PURCHASE
\* colour, of columns 8-10 the SALES colour and of columns 11-12 the CLOSING
\* STOCK colour, and no cell outside these column ranges (column 1, the Item
\* column) is coloured.
C8_BandColours ==
    output_file.written =>
        LET ws == output_file.ws
            n == Len(final_report_df.rows)
            colour(c) == IF c \in 2..4 THEN "ADD8E6"
                         ELSE IF c \in 5..7 THEN "F4CCCC"
                         ELSE IF c \in 8..10 THEN "D9EAD3"
                         ELSE IF c \in 11..12 THEN "EAD1DC"
                         ELSE "none"
        IN  /\ DOMAIN ws.cells = (1..(n + 2)) \X (1..12)
            /\ \A k \in 1..n : \A c \in 1..12 :
                  /\ ws.cells[<<k + 2, c>>].value = Positional(final_report_df, k)[c]
                  /\ ws.cells[<<k + 2, c>>].fill = colour(c)
            /\ \A rc \in DOMAIN ws.cells :
                  rc[2] \notin 2..12 => ws.cells[rc].fill = "none"

C8_Witness ==
    /\ output_file.written
    /\ Len(final_report_df.rows) >= 2
    /\ output_file.ws.cells[<<4, 12>>].fill = "EAD1DC"

\* C10: the price lookup is invoked exactly once per quantity record that
\* passed the filter, keyed by the first two "_" segments of the record's item
\* code; a failed call is not retried and does not prevent the lookups of the
\* following records.
C10_OneLookupPerFilteredRecord ==
    /\ Len(calls) <= Len(qty_df.rows)
    /\ \A k \in 1..Len(calls) :
          /\ calls[k].item_code = <<"6", "_", "2", "_", "1">>
          /\ calls[k].SubminorCode = <<"6", "_", "2">>
    /\ RunEnded => Len(calls) = Len(qty_df.rows)

====
